---- MODULE Spec2Model ----
(***************************************************************************)
(* LoadSingleImage (cellprofiler/modules/loadsingleimage.py).              *)
(*                                                                         *)
(* A Python string is modelled as a sequence of text fragments, so that    *)
(* slicing, prefix tests, joining and substitution are computed and not    *)
(* assumed.  Directory strings use one-character fragments.                *)
(***************************************************************************)
EXTENDS Integers, Sequences, FiniteSets, TLC

\* ------------------------------------------------------------------ bounds
MaxFiles == 3      \* longest file_settings list explored
MaxKey == 3        \* number of uuid1 values drawn in one behaviour
MaxCycles == 2     \* number of pipeline cycles in one behaviour

\* --------------------------------------------------------------- constants
DIR_DEFAULT_IMAGE_FOLDER == <<"Default input folder">>
DIR_DEFAULT_OUTPUT_FOLDER == <<"Default output folder">>
DIR_CUSTOM_FOLDER == <<"Custom folder">>

FD_FILE_NAME == "FileName"
FD_IMAGE_NAME == "ImageName"
FD_KEY == "Key"
FD_REMOVE_BUTTON == "RemoveButton"

variable_revision_number == 1

DO_NOT_USE == <<"Do not use">>

os_sep == "/"
os_altsep == ""    \* None on a posix build

\* ------------------------------------------------- the settings framework
Choice(text, value) ==
    [type |-> "Choice", text |-> text, value |-> value, args |-> <<>>]

Text(text, value) ==
    [type |-> "Text", text |-> text, value |-> value, args |-> <<>>]

FileImageNameProvider(text, value) ==
    [type |-> "FileImageNameProvider", text |-> text, value |-> value,
     args |-> <<>>]

DoSomething(text, label, callback, args) ==
    [type |-> "DoSomething", text |-> text, value |-> <<label, callback>>,
     args |-> args]

\* ---------------------------------------------------------------- helpers
Min(a, b) == IF a < b THEN a ELSE b

\* s[:n]
SliceTo(s, n) == SubSeq(s, 1, Min(n, Len(s)))

\* s[n:]
SliceFrom(s, n) == SubSeq(s, n + 1, Len(s))

\* del l[index]   (index counted from 1)
DelAt(l, index) == SubSeq(l, 1, index - 1) \o SubSeq(l, index + 1, Len(l))

\* l.index(x): the first position holding x, 0 when x is absent (ValueError)
ListIndex(l, x) ==
    IF \E i \in DOMAIN l : l[i] = x
    THEN CHOOSE i \in DOMAIN l : l[i] = x /\ \A j \in 1..(i - 1) : l[j] # x
    ELSE 0

\* ------------------------------------------------------------------- state
VARIABLES
    dir_choice,          \* self.dir_choice
    custom_directory,    \* self.custom_directory
    file_settings,       \* self.file_settings
    add_button,          \* self.add_button
    uuid_clock,          \* number of uuid1 values drawn so far
    providers,           \* workspace.image_set.providers
    image_set_number,    \* workspace.measurements.image_set_number
    figure,              \* the figure the last run showed, <<>> without a frame
    saved,               \* the module's block of the pipeline file being loaded
    call,                \* the last call made on the module
    ret                  \* what that call returned

vars == <<dir_choice, custom_directory, file_settings, add_button, uuid_clock,
          providers, image_set_number, figure, saved, call, ret>>

NoCall == [op |-> "create_settings", arg |-> 0, exc |-> ""]

\* uuid.uuid1(): a value never returned before
uuid1(clock) == clock + 1

\* ------------------------------------------------------- list maintenance
add_file(fs, new_key) ==
    Append(fs,
           [Key |-> new_key,
            FileName |-> Text("What image file do you want to load? Include the extension like .tif",
                              <<"None">>),
            ImageName |-> FileImageNameProvider("What do you want to call that image?",
                                                <<"OrigBlue">>),
            RemoveButton |-> DoSomething("Remove the above image and file",
                                         "Remove", "remove_file",
                                         <<new_key>>)])

Keys(fs) == [i \in DOMAIN fs |-> fs[i].Key]

\* a plausible slip: the entry after the one found is deleted
remove_file_off_by_one(fs, key) ==
    LET index == ListIndex(Keys(fs), key)
    IN  IF index = 0 THEN fs
        ELSE DelAt(fs, IF index < Len(fs) THEN index + 1 ELSE index)

remove_file(fs, key) ==
    LET index == ListIndex(Keys(fs), key)
    IN  IF index = 0 THEN fs ELSE DelAt(fs, index)

create_settings ==
    /\ dir_choice = Choice("Which folder contains the image files?",
                           DIR_DEFAULT_IMAGE_FOLDER)
    /\ custom_directory = Text("What is the name of the folder containing the image files?",
                               <<".">>)
    /\ file_settings = add_file(<<>>, uuid1(0))
    /\ uuid_clock = 1
    /\ add_button = DoSomething("Add another file to be loaded", "Add",
                                "add_file", <<>>)

Init ==
    /\ create_settings
    /\ providers = <<>>
    /\ image_set_number = 0
    /\ figure = <<>>
    /\ saved = <<>>
    /\ call = NoCall
    /\ ret = <<>>

\* settings are edited before the pipeline starts cycling
Editing == image_set_number = 0 /\ providers = <<>>

AddFile ==
    /\ Editing
    /\ Len(file_settings) < MaxFiles
    /\ uuid_clock < MaxKey
    /\ file_settings' = add_file(file_settings, uuid1(uuid_clock))
    /\ uuid_clock' = uuid_clock + 1
    /\ call' = [op |-> "add_file", arg |-> 0, exc |-> ""]
    /\ ret' = <<>>
    /\ UNCHANGED <<dir_choice, custom_directory, add_button, providers,
                   image_set_number, figure, saved>>

RemoveFile ==
    /\ Editing
    /\ \E key \in 1..MaxKey :
          /\ file_settings' = remove_file(file_settings, key)
          /\ call' = [op |-> "remove_file", arg |-> key,
                      exc |-> IF ListIndex(Keys(file_settings), key) = 0
                              THEN "ValueError" ELSE ""]
    /\ ret' = <<>>
    /\ UNCHANGED <<dir_choice, custom_directory, add_button, uuid_clock,
                   providers, image_set_number, figure, saved>>

\* ------------------------------------------------------ prepare_settings
\* a plausible slip: the list is trimmed from its end
RECURSIVE prepare_shrink_from_end(_, _)
prepare_shrink_from_end(fs, count) ==
    IF Len(fs) > count /\ fs # <<>>
    THEN prepare_shrink_from_end(remove_file(fs, fs[Len(fs)].Key), count)
    ELSE fs

\* while len(self.file_settings) > count: remove_file(file_settings[0][FD_KEY])
\* (stops on the empty list, where file_settings[0] raises IndexError)
RECURSIVE prepare_shrink(_, _)
prepare_shrink(fs, count) ==
    IF Len(fs) > count /\ fs # <<>>
    THEN prepare_shrink(remove_file(fs, fs[1].Key), count)
    ELSE fs

\* while len(self.file_settings) < count: add_file()
RECURSIVE prepare_grow(_, _, _)
prepare_grow(fs, clock, count) ==
    IF Len(fs) < count
    THEN prepare_grow(add_file(fs, uuid1(clock)), clock + 1, count)
    ELSE [fs |-> fs, clock |-> clock]

\* n is len(setting_values); "/" on two ints is floor division
prepare_settings(fs, clock, n) ==
    LET count == (n - 2) \div 2
        shrunk == prepare_shrink(fs, count)
    IN  IF Len(shrunk) > count
        THEN [fs |-> shrunk, clock |-> clock, exc |-> "IndexError"]
        ELSE LET grown == prepare_grow(shrunk, clock, count)
             IN  [fs |-> grown.fs, clock |-> grown.clock, exc |-> ""]

MaxSettingValues == 2 * MaxFiles + 3

PrepareSettings ==
    /\ Editing
    /\ \E n \in 0..MaxSettingValues :
          LET r == prepare_settings(file_settings, uuid_clock, n)
          IN  /\ r.clock <= MaxKey
              /\ file_settings' = r.fs
              /\ uuid_clock' = r.clock
              /\ call' = [op |-> "prepare_settings", arg |-> n, exc |-> r.exc]
    /\ ret' = <<>>
    /\ UNCHANGED <<dir_choice, custom_directory, add_button, providers,
                   image_set_number, figure, saved>>

\* ---------------------------------------------------------------- settings
\* a plausible slip: the image name is listed before the file name
RECURSIVE settings_image_name_first(_, _, _)
settings_image_name_first(dc, cd, fs) ==
    IF fs = <<>> THEN <<dc, cd>>
    ELSE settings_image_name_first(dc, cd, SubSeq(fs, 1, Len(fs) - 1))
         \o <<fs[Len(fs)].ImageName, fs[Len(fs)].FileName>>

RECURSIVE settings(_, _, _)
settings(dc, cd, fs) ==
    IF fs = <<>> THEN <<dc, cd>>
    ELSE settings(dc, cd, SubSeq(fs, 1, Len(fs) - 1))
         \o <<fs[Len(fs)].FileName, fs[Len(fs)].ImageName>>

Settings ==
    /\ ret' = settings(dir_choice, custom_directory, file_settings)
    /\ call' = [op |-> "settings", arg |-> 0, exc |-> ""]
    /\ UNCHANGED <<dir_choice, custom_directory, file_settings, add_button,
                   uuid_clock, providers, image_set_number, figure, saved>>

\* ------------------------------------------- the user edits setting values
FilePatterns == {<<"None">>, <<"illum_", "\\g<Plate>", ".tif">>}
ImageNames == {<<"OrigBlue">>, <<"IllumBlue">>}
DirChoices == {DIR_DEFAULT_IMAGE_FOLDER, DIR_DEFAULT_OUTPUT_FOLDER,
               DIR_CUSTOM_FOLDER}
CustomDirs == {<<".">>, <<".", "/", "a">>, <<"&", "/", "b">>}

SetFileName ==
    /\ Editing
    /\ \E i \in DOMAIN file_settings : \E v \in FilePatterns :
          /\ v # file_settings[i].FileName.value
          /\ file_settings' = [file_settings EXCEPT ![i].FileName.value = v]
    /\ call' = [op |-> "edit", arg |-> 0, exc |-> ""]
    /\ ret' = <<>>
    /\ UNCHANGED <<dir_choice, custom_directory, add_button, uuid_clock,
                   providers, image_set_number, figure, saved>>

SetImageName ==
    /\ Editing
    /\ \E i \in DOMAIN file_settings : \E v \in ImageNames :
          /\ v # file_settings[i].ImageName.value
          /\ file_settings' = [file_settings EXCEPT ![i].ImageName.value = v]
    /\ call' = [op |-> "edit", arg |-> 0, exc |-> ""]
    /\ ret' = <<>>
    /\ UNCHANGED <<dir_choice, custom_directory, add_button, uuid_clock,
                   providers, image_set_number, figure, saved>>

SetDirChoice ==
    /\ Editing
    /\ \E v \in DirChoices :
          /\ v # dir_choice.value
          /\ dir_choice' = [dir_choice EXCEPT !.value = v]
    /\ call' = [op |-> "edit", arg |-> 0, exc |-> ""]
    /\ ret' = <<>>
    /\ UNCHANGED <<custom_directory, file_settings, add_button, uuid_clock,
                   providers, image_set_number, figure, saved>>

SetCustomDirectory ==
    /\ Editing
    /\ \E v \in CustomDirs :
          /\ v # custom_directory.value
          /\ custom_directory' = [custom_directory EXCEPT !.value = v]
    /\ call' = [op |-> "edit", arg |-> 0, exc |-> ""]
    /\ ret' = <<>>
    /\ UNCHANGED <<dir_choice, file_settings, add_button, uuid_clock,
                   providers, image_set_number, figure, saved>>

\* ------------------------------------------------------ get_base_directory
\* cpprefs.get_default_image_directory(), get_default_output_directory()
get_default_image_directory == <<"/", "i">>
get_default_output_directory == <<"/", "o">>

\* os.path.join(a, p) of posixpath
os_path_join(a, p) ==
    IF p # <<>> /\ Head(p) = os_sep THEN p
    ELSE IF a = <<>> \/ a[Len(a)] = os_sep THEN a \o p
    ELSE a \o <<os_sep>> \o p

get_base_directory(dc, cd) ==
    IF dc.value = DIR_DEFAULT_IMAGE_FOLDER THEN get_default_image_directory
    ELSE IF dc.value = DIR_DEFAULT_OUTPUT_FOLDER
         THEN get_default_output_directory
    ELSE IF dc.value = DIR_CUSTOM_FOLDER
         THEN LET base_directory == cd.value
              IN  IF \/ SliceTo(base_directory, 2) = <<".", os_sep>>
                     \/ (os_altsep # "" /\
                         SliceTo(base_directory, 2) = <<".", os_altsep>>)
                  THEN os_path_join(get_default_image_directory,
                                    SliceTo(base_directory, 2))
                  ELSE IF \/ SliceTo(base_directory, 2) = <<"&", os_sep>>
                          \/ (os_altsep # "" /\
                              SliceTo(base_directory, 2) = <<"&", os_altsep>>)
                  THEN os_path_join(get_default_output_directory,
                                    SliceTo(base_directory, 2))
                  ELSE base_directory
    ELSE <<"UnboundLocalError">>

GetBaseDirectory ==
    /\ ret' = get_base_directory(dir_choice, custom_directory)
    /\ call' = [op |-> "get_base_directory", arg |-> 0, exc |-> ""]
    /\ UNCHANGED <<dir_choice, custom_directory, file_settings, add_button,
                   uuid_clock, providers, image_set_number, figure, saved>>

\* --------------------------------------------------------------------- run
\* the metadata of cycle n: the plate of image set n is plate n + 1
MetadataTags == {"\\g<Plate>"}
Metadata(n) == [tag \in MetadataTags |-> ToString(n + 1)]

\* workspace.measurements.apply_metadata(pattern): every tag of the pattern
\* is replaced by the value the current image set has for it
apply_metadata(pattern, n) ==
    [i \in DOMAIN pattern |->
        IF pattern[i] \in MetadataTags THEN Metadata(n)[pattern[i]]
        ELSE pattern[i]]

\* result[key] = value on a dict
DictSet(d, key, value) ==
    [k \in DOMAIN d \cup {key} |-> IF k = key THEN value ELSE d[k]]

\* a plausible slip: a name already in the dictionary keeps its first file
RECURSIVE get_file_names_keep_first(_, _)
get_file_names_keep_first(fs, n) ==
    IF fs = <<>> THEN <<>>
    ELSE LET file_setting == fs[Len(fs)]
             result == get_file_names_keep_first(SubSeq(fs, 1, Len(fs) - 1), n)
         IN  IF file_setting.ImageName.value \in DOMAIN result THEN result
             ELSE DictSet(result, file_setting.ImageName.value,
                          apply_metadata(file_setting.FileName.value, n))

RECURSIVE get_file_names(_, _)
get_file_names(fs, n) ==
    IF fs = <<>> THEN <<>>
    ELSE LET file_setting == fs[Len(fs)]
             file_pattern == file_setting.FileName.value
             file_name == apply_metadata(file_pattern, n)
         IN  DictSet(get_file_names(SubSeq(fs, 1, Len(fs) - 1), n),
                     file_setting.ImageName.value, file_name)

LoadImagesImageProvider(name, pathname, filename) ==
    [name |-> name, pathname |-> pathname, filename |-> filename]

\* dict.keys(): the keys, in an order the dictionary chooses
DictKeys(d) ==
    {order \in [1..Cardinality(DOMAIN d) -> DOMAIN d] :
        \A i, j \in DOMAIN order : i # j => order[i] # order[j]}

\* the effect of run on (providers, statistics) for one order of dict.keys()
run(fs, dc, cd, n, registry, keys) ==
    LET dict == get_file_names(fs, n)
        root == get_base_directory(dc, cd)
    IN  [providers |->
            registry \o [i \in DOMAIN keys |->
                            LoadImagesImageProvider(keys[i], root,
                                                    dict[keys[i]])],
         statistics |->
            <<<<"Image name", "File">>>> \o
            [i \in DOMAIN keys |-> <<keys[i], dict[keys[i]]>>]]

\* one pipeline cycle: the pipeline calls run, then moves to the next image set
Run ==
    /\ image_set_number < MaxCycles
    /\ \E keys \in DictKeys(get_file_names(file_settings, image_set_number)) :
       \E frame \in BOOLEAN :
          LET r == run(file_settings, dir_choice, custom_directory,
                       image_set_number, providers, keys)
          IN  /\ providers' = r.providers
              /\ figure' = IF frame
                           THEN [title |-> <<"Load single image: image set # ",
                                             ToString(image_set_number + 1)>>,
                                 subplots |-> <<1, 1>>,
                                 table |-> r.statistics]
                           ELSE <<>>
    /\ image_set_number' = image_set_number + 1
    /\ call' = [op |-> "run", arg |-> image_set_number, exc |-> ""]
    /\ ret' = <<>>
    /\ UNCHANGED <<dir_choice, custom_directory, file_settings, add_button,
                   uuid_clock, saved>>

\* -------------------------------------------------------- upgrade_settings
\* for i in indices: if values[i+1] == DO_NOT_USE: del values[i:i+2]
\* (indices as in the source, counted from 0)
RECURSIVE remove_do_not_use(_, _)
remove_do_not_use(values, indices) ==
    IF indices = <<>> THEN [values |-> values, exc |-> ""]
    ELSE LET i == Head(indices)
         IN  IF i + 2 > Len(values)
             THEN [values |-> values, exc |-> "IndexError"]
             ELSE IF values[i + 2] = DO_NOT_USE
             THEN remove_do_not_use(SubSeq(values, 1, i) \o
                                    SubSeq(values, i + 3, Len(values)),
                                    Tail(indices))
             ELSE remove_do_not_use(values, Tail(indices))

\* a plausible slip: the pairs are visited front to back, so that a deletion
\* shifts the pairs still to be visited
upgrade_settings_front_to_back(setting_values, revision, module_name, from_matlab) ==
    IF from_matlab /\ revision = 4
    THEN LET first == IF setting_values[2] = <<".">>
                      THEN DIR_DEFAULT_IMAGE_FOLDER
                      ELSE IF setting_values[2] = <<"&">>
                      THEN DIR_DEFAULT_OUTPUT_FOLDER
                      ELSE DIR_CUSTOM_FOLDER
             r == remove_do_not_use([setting_values EXCEPT ![1] = first],
                                    <<4, 6, 8>>)
         IN  [setting_values |-> r.values, variable_revision_number |-> 1,
              from_matlab |-> FALSE, exc |-> r.exc]
    ELSE [setting_values |-> setting_values,
          variable_revision_number |-> revision,
          from_matlab |-> from_matlab, exc |-> ""]

\* setting_values[k] of the source is setting_values[k + 1] here
upgrade_settings(setting_values, revision, module_name, from_matlab) ==
    IF from_matlab /\ revision = 4
    THEN LET first == IF setting_values[2] = <<".">>
                      THEN DIR_DEFAULT_IMAGE_FOLDER
                      ELSE IF setting_values[2] = <<"&">>
                      THEN DIR_DEFAULT_OUTPUT_FOLDER
                      ELSE DIR_CUSTOM_FOLDER
             r == remove_do_not_use([setting_values EXCEPT ![1] = first],
                                    <<8, 6, 4>>)
         IN  [setting_values |-> r.values, variable_revision_number |-> 1,
              from_matlab |-> FALSE, exc |-> r.exc]
    ELSE [setting_values |-> setting_values,
          variable_revision_number |-> revision,
          from_matlab |-> from_matlab, exc |-> ""]

\* the blocks a pipeline file can hold for this module: the ten values of a
\* Matlab pipeline (a blank, the folder, four file name / image name pairs)
MatlabFolders == {<<".">>, <<"&">>, <<"/", "x">>}
MatlabFileName(k) == <<"file", ToString(k), ".tif">>
MatlabImageNames(k) == {<<"Image", ToString(k)>>, DO_NOT_USE}
MatlabSettingValues ==
    {<<<<>>, folder, MatlabFileName(1), n1, MatlabFileName(2), n2,
       MatlabFileName(3), n3, MatlabFileName(4), n4>> :
        folder \in MatlabFolders,
        n1 \in MatlabImageNames(1), n2 \in MatlabImageNames(2),
        n3 \in MatlabImageNames(3), n4 \in MatlabImageNames(4)}
SavedRevisions == {3, 4}

InitUpgrade ==
    /\ create_settings
    /\ providers = <<>>
    /\ image_set_number = 0
    /\ figure = <<>>
    /\ saved \in [setting_values : MatlabSettingValues,
                  variable_revision_number : SavedRevisions,
                  from_matlab : BOOLEAN]
    /\ call = NoCall
    /\ ret = <<>>

UpgradeSettings ==
    /\ saved # <<>>
    /\ ret' = upgrade_settings(saved.setting_values,
                               saved.variable_revision_number,
                               "LoadSingleImage", saved.from_matlab)
    /\ call' = [op |-> "upgrade_settings", arg |-> 0, exc |-> ""]
    /\ UNCHANGED <<dir_choice, custom_directory, file_settings, add_button,
                   uuid_clock, providers, image_set_number, figure, saved>>

Next ==
    \/ AddFile
    \/ RemoveFile
    \/ PrepareSettings
    \/ Settings
    \/ SetFileName
    \/ SetImageName
    \/ SetDirChoice
    \/ SetCustomDirectory
    \/ GetBaseDirectory
    \/ Run

Spec == Init /\ [][Next]_vars

NextUpgrade == UpgradeSettings

SpecUpgrade == InitUpgrade /\ [][NextUpgrade]_vars

\* ================================================================= claims
RunStep == image_set_number' = image_set_number + 1

\* C1: run does its work on the first cycle only: a run on any later cycle
\* appends no provider to the registry.
C1_RunOnlyOnFirstCycle ==
    [][(RunStep /\ image_set_number >= 1) => providers' = providers]_vars

\* the provider the claim expects for one file_settings entry
BuiltFrom(entry) ==
    LoadImagesImageProvider(entry.ImageName.value,
                            get_base_directory(dir_choice, custom_directory),
                            apply_metadata(entry.FileName.value,
                                           image_set_number))

Bijections(n) ==
    {f \in [1..n -> 1..n] : \A i, j \in 1..n : i # j => f[i] # f[j]}

\* C2 as stated: one call of run appends exactly one provider per
\* file_settings entry, entries sharing an image name included, each built
\* from the entry's image name, the base directory and the entry's pattern
\* after apply_metadata; the providers already registered stay in place.
C2_OneProviderPerEntry ==
    [][RunStep =>
        /\ Len(providers') = Len(providers) + Len(file_settings)
        /\ SubSeq(providers', 1, Len(providers)) = providers
        /\ \E f \in Bijections(Len(file_settings)) :
              \A i \in DOMAIN file_settings :
                 providers'[Len(providers) + f[i]] = BuiltFrom(file_settings[i])
      ]_vars

ImageNamesOf(fs) == {fs[i].ImageName.value : i \in DOMAIN fs}

LastNamed(fs, name) ==
    fs[CHOOSE i \in DOMAIN fs :
          /\ fs[i].ImageName.value = name
          /\ \A j \in DOMAIN fs : j > i => fs[j].ImageName.value # name]

\* C2 amended: one call of run appends exactly one provider per distinct
\* image name of file_settings (one per entry when no two entries share a
\* name), built from that name, the base directory of get_base_directory and
\* the pattern, after apply_metadata, of the last entry bearing the name; the
\* providers already registered stay in place.
C2_OneProviderPerImageName ==
    [][RunStep =>
        /\ Len(providers') =
              Len(providers) + Cardinality(ImageNamesOf(file_settings))
        /\ SubSeq(providers', 1, Len(providers)) = providers
        /\ \A name \in ImageNamesOf(file_settings) :
              \E k \in (Len(providers) + 1)..Len(providers') :
                 providers'[k] = BuiltFrom(LastNamed(file_settings, name))
      ]_vars

\* a run on a registry that already held providers, with two entries sharing
\* an image name but not a file, and an entry under another name
C2_Witness ==
    /\ call.op = "run"
    /\ call.arg >= 1
    /\ Len(providers) >= 4
    /\ Cardinality(ImageNamesOf(file_settings)) >= 2
    /\ \E i, j \in DOMAIN file_settings :
          /\ i < j
          /\ file_settings[i].ImageName.value = file_settings[j].ImageName.value
          /\ file_settings[i].FileName.value # file_settings[j].FileName.value

\* C3: remove_file(key) with the key of a present entry removes exactly that
\* entry: the list is one shorter, holds no entry with the key, the other
\* entries are unchanged and in order, and dir_choice and custom_directory
\* are unchanged.
C3_RemoveFileRemovesExactlyThatEntry ==
    [][(/\ call'.op = "remove_file"
        /\ \E i \in DOMAIN file_settings : file_settings[i].Key = call'.arg)
       =>
       /\ Len(file_settings') = Len(file_settings) - 1
       /\ \A j \in DOMAIN file_settings' : file_settings'[j].Key # call'.arg
       /\ \E i \in DOMAIN file_settings :
             /\ file_settings[i].Key = call'.arg
             /\ file_settings' = SubSeq(file_settings, 1, i - 1) \o
                                 SubSeq(file_settings, i + 1,
                                        Len(file_settings))
       /\ dir_choice' = dir_choice
       /\ custom_directory' = custom_directory
      ]_vars

\* remove_file has removed an entry from between two others
C3_Witness ==
    /\ call.op = "remove_file"
    /\ call.exc = ""
    /\ \E i, j \in DOMAIN file_settings :
          file_settings[i].Key < call.arg /\ call.arg < file_settings[j].Key

\* C4: settings() returns dir_choice, custom_directory, then for each entry
\* in list order its file-name setting and its image-name setting: exactly
\* 2 + 2*len(file_settings) elements, no remove or add button among them.
C4_SettingsInPipelineOrder ==
    call.op = "settings" =>
       /\ Len(ret) = 2 + 2 * Len(file_settings)
       /\ ret[1] = dir_choice
       /\ ret[2] = custom_directory
       /\ \A i \in DOMAIN file_settings :
             /\ ret[2 * i + 1] = file_settings[i].FileName
             /\ ret[2 * i + 2] = file_settings[i].ImageName
       /\ \A k \in DOMAIN ret :
             /\ ret[k].type # "DoSomething"
             /\ ret[k] # add_button
             /\ \A i \in DOMAIN file_settings :
                   ret[k] # file_settings[i].RemoveButton

\* settings() was called on a list of at least two entries that differ in
\* file name and in image name, after an entry had been removed
C4_Witness ==
    /\ call.op = "settings"
    /\ Len(file_settings) >= 2
    /\ file_settings[1].Key > 1
    /\ file_settings[1].FileName.value # file_settings[2].FileName.value
    /\ file_settings[1].ImageName.value # file_settings[2].ImageName.value

MatlabUpgrade ==
    /\ call.op = "upgrade_settings"
    /\ saved.from_matlab
    /\ saved.variable_revision_number = 4

ExpectedFolderChoice(values) ==
    IF values[2] = <<".">> THEN DIR_DEFAULT_IMAGE_FOLDER
    ELSE IF values[2] = <<"&">> THEN DIR_DEFAULT_OUTPUT_FOLDER
    ELSE DIR_CUSTOM_FOLDER

\* the k-th (file name, image name) pair, dropped when it is "Do not use"
UsedPair(values, k) ==
    IF values[2 * k + 2] = DO_NOT_USE THEN <<>>
    ELSE <<values[2 * k + 1], values[2 * k + 2]>>

C6_CustomFolderPrefixes ==
    (call.op = "get_base_directory" /\ dir_choice.value = DIR_CUSTOM_FOLDER)
    =>
    LET dir == custom_directory.value
    IN  IF SliceTo(dir, 2) = <<".", "/">>
        THEN ret = os_path_join(get_default_image_directory,
                                SliceFrom(dir, 2))
        ELSE IF SliceTo(dir, 2) = <<"&", "/">>
        THEN ret = os_path_join(get_default_output_directory,
                                SliceFrom(dir, 2))
        ELSE ret = dir

\* C7: prepare_settings(setting_values) with len(setting_values) >= 2 ends
\* with len(file_settings) = (len(setting_values) - 2) / 2 (integer
\* quotient), having removed entries from the front of the list or appended
\* new entries at its end.
C7_PrepareSettingsReachesCount ==
    [][(call'.op = "prepare_settings" /\ call'.arg >= 2) =>
        LET count == (call'.arg - 2) \div 2
            before == Len(file_settings)
        IN  /\ call'.exc = ""
            /\ Len(file_settings') = count
            /\ before >= count =>
                  file_settings' =
                     SubSeq(file_settings, before - count + 1, before)
            /\ before <= count =>
                  SubSeq(file_settings', 1, before) = file_settings
      ]_vars

\* prepare_settings has left a list of two entries, the first of which is
\* not the entry create_settings made: the front was trimmed and the end
\* extended
C7_Witness ==
    /\ call.op = "prepare_settings"
    /\ call.exc = ""
    /\ call.arg >= 2
    /\ Len(file_settings) = 2
    /\ file_settings[1].Key > 1
    /\ file_settings[2].Key = uuid_clock
====
